---- MODULE Spec2Model ----
(***************************************************************************)
(* Model of src/fetch_indices.js: the index-constituents exporter.         *)
(*                                                                         *)
(* JavaScript strings are sequences of one-character strings, so that      *)
(* trim, toLowerCase and the "." -> "-" replacement are computed on the    *)
(* characters.  JavaScript values whose type the code tests with typeof    *)
(* are records [t |-> <typeof>, v |-> <number>].  Fractional numbers       *)
(* (prices, yields) are counted in units of 1/1000.                        *)
(*                                                                         *)
(* An HTML document is the sequence of its <table> elements in document    *)
(* order, a table the sequence of its <tr> rows, a row the sequence of the *)
(* raw texts of its <th>/<td> cells.                                       *)
(***************************************************************************)
EXTENDS Integers, Sequences, FiniteSets, TLC

VARIABLES
    html,          \* SpecExtract: the document handed to parseConstituentTable
    extracted,     \* SpecExtract: its outcome
    quote,         \* SpecYield: one quote record returned by the provider
    resolved,      \* SpecYield: the pricing entry computed from it
    symbols,       \* fetchQuoteData: its argument
    results,       \* fetchQuoteData: the results object
    chunkIndex,    \* fetchQuoteData: index of the chunk being awaited (1-based)
    qpc,           \* fetchQuoteData: "idle", "called", "awaiting", "returned"
    requests,      \* history: the yahooSymbols list of every request issued
    completions,   \* history: "ok" / "err" for every request completed
    inFlight,      \* history: number of requests issued and not completed
    quoted,        \* history: <<chunk, quote.symbol, key>> for every entry written from a quote
    returnedSyms,  \* history: the symbol field of every non-null quote returned
    taskPc,        \* fetchConstituents(url) per page: position
    taskHtml,      \* per page: the body of the response
    taskRows,      \* per page: rows the task fulfilled with
    mainPc,        \* main(): position
    combinedRows,  \* buildConstituents: combinedRows
    constituents,  \* buildConstituents: the value returned
    csvFile,       \* writeCsv: rows written to the output file, or NotWritten
    exitCode       \* process exit code

vars == <<html, extracted, quote, resolved, symbols, results, chunkIndex, qpc,
          requests, completions, inFlight, quoted, returnedSyms, taskPc, taskHtml,
          taskRows, mainPc, combinedRows, constituents, csvFile, exitCode>>

extractVars == <<html, extracted>>
yieldVars == <<quote, resolved>>
quoteVars == <<symbols, results, chunkIndex, qpc, requests, completions, inFlight,
               quoted, returnedSyms>>
mainVars == <<taskPc, taskHtml, taskRows, mainPc, combinedRows, constituents,
              csvFile, exitCode>>

(***************************************************************************)
(* Bounds of the model.                                                    *)
(***************************************************************************)
MaxTables == 2      \* tables per document
MaxDataRows == 1    \* data rows (after the header row) per table
MaxSymbols == 3     \* length of the symbol list given to fetchQuoteData
MaxQuotes == 2      \* quotes in one provider response
MaxNum == 2         \* distinct numeric values of a quote field
ChunkSize == 2      \* the chunk size of fetchQuoteData (50 in the source)

(***************************************************************************)
(* Strings.                                                                *)
(***************************************************************************)
UpperChars == <<"A","B","C","D","E","F","G","H","I","J","K","L","M",
                "N","O","P","Q","R","S","T","U","V","W","X","Y","Z">>
LowerChars == <<"a","b","c","d","e","f","g","h","i","j","k","l","m",
                "n","o","p","q","r","s","t","u","v","w","x","y","z">>
Digits == <<"0","1","2","3","4","5","6","7","8","9">>
Whitespace == {" "}

Range(s) == {s[i] : i \in DOMAIN s}

SeqsUpTo(S, n) == UNION {[1..k -> S] : k \in 0..n}

\* String.prototype.toLowerCase
LowerChar(c) ==
    IF \E i \in DOMAIN UpperChars : UpperChars[i] = c
    THEN LowerChars[CHOOSE i \in DOMAIN UpperChars : UpperChars[i] = c]
    ELSE c

toLowerCase(s) == [i \in DOMAIN s |-> LowerChar(s[i])]

\* String.prototype.trim
RECURSIVE trimStart(_)
trimStart(s) ==
    IF s # <<>> /\ Head(s) \in Whitespace THEN trimStart(Tail(s)) ELSE s

RECURSIVE trimEnd(_)
trimEnd(s) ==
    IF s # <<>> /\ s[Len(s)] \in Whitespace
    THEN trimEnd(SubSeq(s, 1, Len(s) - 1))
    ELSE s

trim(s) == trimEnd(trimStart(s))

\* `column_${cellIndex}` (cellIndex is 0-based)
columnPlaceholder(cellIndex) ==
    <<"c","o","l","u","m","n","_">> \o <<Digits[cellIndex + 1]>>

strSymbol == <<"S","y","m","b","o","l">>
strSymbolLower == <<"s","y","m","b","o","l">>
strSymbolUpper == <<" ","S","Y","M","B","O","L"," ">>
strSecurity == <<"S","e","c","u","r","i","t","y">>
strCompany == <<"C","o","m","p","a","n","y">>
strName == <<"N","a","m","e">>
strGicsSector == <<"G","I","C","S"," ","S","e","c","t","o","r">>
strSector == <<"S","e","c","t","o","r">>
strUndefined == <<"u","n","d","e","f","i","n","e","d">>

\* Ticker and cell texts used as inputs
symAdotB == <<"A",".","B">>
symAdashB == <<"A","-","B">>
symC == <<"C">>
symZ == <<"Z">>
txtAcme == <<"A","c","m","e">>
txtPaddedAB == <<" ","A",".","B"," ">>
txtBlank == <<" ">>

(***************************************************************************)
(* parseConstituentTable (Table Extractor).                                *)
(***************************************************************************)
Undefined == [t |-> "undefined", v |-> 0]

\* headers.findIndex(header => header.toLowerCase() === 'symbol'); 0 for -1
symbolIndexOf(headers) ==
    IF \E i \in DOMAIN headers : toLowerCase(headers[i]) = strSymbolLower
    THEN CHOOSE i \in DOMAIN headers :
            /\ toLowerCase(headers[i]) = strSymbolLower
            /\ \A j \in 1..(i - 1) : toLowerCase(headers[j]) # strSymbolLower
    ELSE 0

\* headers of a table: trimmed texts of the cells of its first row
headersOf(table) ==
    IF table = <<>> THEN <<>> ELSE [i \in DOMAIN table[1] |-> trim(table[1][i])]

\* entry[header] = text, on an object modelled as a function
setProp(entry, key, value) ==
    [k \in (DOMAIN entry) \cup {key} |-> IF k = key THEN value ELSE entry[k]]

\* the forEach of lines 58-64: the entry after the first n cells of the row
RECURSIVE buildEntry(_, _, _)
buildEntry(headers, row, n) ==
    IF n = 0 THEN <<>>
    ELSE LET header == IF n <= Len(headers) THEN headers[n]
                       ELSE columnPlaceholder(n - 1)
         IN  setProp(buildEntry(headers, row, n - 1), header, trim(row[n]))

\* entry[headers[symbolIndex]] is truthy: present and not the empty string
hasSymbol(entry, headers, symbolIndex) ==
    /\ headers[symbolIndex] \in DOMAIN entry
    /\ entry[headers[symbolIndex]] # <<>>

\* rows of lines 52-69 for the rows n.. of the table
RECURSIVE rowsFrom(_, _, _, _)
rowsFrom(table, headers, symbolIndex, n) ==
    IF n > Len(table) THEN <<>>
    ELSE LET entry == buildEntry(headers, table[n], Len(table[n]))
             rest == rowsFrom(table, headers, symbolIndex, n + 1)
         IN  IF hasSymbol(entry, headers, symbolIndex)
             THEN <<entry>> \o rest
             ELSE rest

tableRows(table) ==
    LET headers == headersOf(table)
        symbolIndex == symbolIndexOf(headers)
    IN  IF symbolIndex = 0 THEN <<>>
        ELSE rowsFrom(table, headers, symbolIndex, 2)

NoTableError == [ok |-> FALSE, rows |-> <<>>]

\* parseFrom giving up at the first table that has a Symbol header but no valid row
RECURSIVE parseFrom_stopAtHeader(_, _)
parseFrom_stopAtHeader(doc, n) ==
    IF n > Len(doc) THEN NoTableError
    ELSE LET rows == tableRows(doc[n])
         IN  IF Len(rows) > 0 THEN [ok |-> TRUE, rows |-> rows]
             ELSE IF symbolIndexOf(headersOf(doc[n])) # 0 THEN NoTableError
             ELSE parseFrom_stopAtHeader(doc, n + 1)

\* the for loop of lines 38-76 from table n on
RECURSIVE parseFrom(_, _)
parseFrom(doc, n) ==
    IF n > Len(doc) THEN NoTableError
    ELSE LET rows == tableRows(doc[n])
         IN  IF Len(rows) > 0 THEN [ok |-> TRUE, rows |-> rows]
             ELSE parseFrom(doc, n + 1)

parseConstituentTable(doc) == parseFrom(doc, 1)

(***************************************************************************)
(* Documents given to the extractor.                                       *)
(***************************************************************************)
HeaderRows ==
    { <<strSymbol, strSecurity>>,
      <<strSymbolUpper, strCompany>>,
      <<strName, strSector>>,
      <<strSymbol, strSymbol>> }

DataRows ==
    { <<symC, txtAcme>>,
      <<txtBlank, txtAcme>>,
      <<txtPaddedAB, <<>>, symZ>> }

Tables ==
    {<<>>} \cup {<<h>> \o d : h \in HeaderRows, d \in SeqsUpTo(DataRows, MaxDataRows)}

Documents == SeqsUpTo(Tables, MaxTables)

NotRun == [ok |-> FALSE, rows |-> <<"not run">>]


(***************************************************************************)
(* JavaScript values of the quote fields.                                  *)
(***************************************************************************)
Null == [t |-> "null", v |-> 0]
NotNumeric == [t |-> "string", v |-> 0]
Num(n) == [t |-> "number", v |-> n]

NumVals == {0} \cup {10 + 5 * k : k \in 1..MaxNum}
FieldValues == {Undefined, Null, NotNumeric} \cup {Num(n) : n \in NumVals}

NullPricing == [price |-> Null, dividendYield |-> Null]

\* resolvePricing preferring trailingAnnualDividendYield
resolvePricing_trailingFirst(q) ==
    LET rawYield == IF q.trailingAnnualDividendYield.t = "number"
                    THEN q.trailingAnnualDividendYield
                    ELSE q.dividendYield
    IN  [price |-> IF q.regularMarketPrice.t = "number"
                   THEN q.regularMarketPrice
                   ELSE Null,
         dividendYield |-> IF rawYield.t = "number"
                           THEN Num(rawYield.v * 100)
                           ELSE Null]

\* lines 115-123: the entry stored for one quote
resolvePricing(q) ==
    LET rawYield == IF q.dividendYield.t = "number"
                    THEN q.dividendYield
                    ELSE q.trailingAnnualDividendYield
    IN  [price |-> IF q.regularMarketPrice.t = "number"
                   THEN q.regularMarketPrice
                   ELSE Null,
         dividendYield |-> IF rawYield.t = "number"
                           THEN Num(rawYield.v * 100)
                           ELSE Null]

(***************************************************************************)
(* chunkArray, toYahooSymbol and the body of fetchQuoteData.               *)
(***************************************************************************)
Min(a, b) == IF a < b THEN a ELSE b

\* items.slice(from, to), 0-based and end-exclusive
slice(items, from, to) == SubSeq(items, from + 1, Min(to, Len(items)))

RECURSIVE chunkFrom(_, _, _)
chunkFrom(items, size, i) ==
    IF i < Len(items)
    THEN <<slice(items, i, i + size)>> \o chunkFrom(items, size, i + size)
    ELSE <<>>

\* chunkArray slicing one item too many: items.slice(i, i + size + 1)
RECURSIVE chunkFrom_overlap(_, _, _)
chunkFrom_overlap(items, size, i) ==
    IF i < Len(items)
    THEN <<slice(items, i, i + size + 1)>> \o chunkFrom_overlap(items, size, i + size)
    ELSE <<>>

chunkArray_overlap(items, size) == chunkFrom_overlap(items, size, 0)

chunkArray(items, size) == chunkFrom(items, size, 0)

\* symbol.replace(/\./g, '-')
toYahooSymbol(symbol) ==
    [i \in DOMAIN symbol |-> IF symbol[i] = "." THEN "-" ELSE symbol[i]]

yahooSymbolsOf(chunk) == [i \in DOMAIN chunk |-> toYahooSymbol(chunk[i])]

\* symbolMapOf keeping the first pair of a key instead of the last
symbolMapOf_firstWins(chunk) ==
    LET ys == [i \in DOMAIN chunk |-> toYahooSymbol(chunk[i])]
    IN  [y \in Range(ys) |->
            chunk[CHOOSE i \in DOMAIN chunk :
                    /\ ys[i] = y
                    /\ \A j \in 1..(i - 1) : ys[j] # y]]

\* new Map(yahooSymbols.map((value, index) => [value, chunk[index]])):
\* a later pair replaces an earlier pair with the same key
symbolMapOf(chunk) ==
    LET ys == yahooSymbolsOf(chunk)
    IN  [y \in Range(ys) |->
            chunk[CHOOSE i \in DOMAIN chunk :
                    /\ ys[i] = y
                    /\ \A j \in (i + 1)..Len(chunk) : ys[j] # y]]

\* symbolMap.get(quote.symbol) ?? quote.symbol
originalSymbolOf(symbolMap, q) ==
    IF q.symbol \in DOMAIN symbolMap THEN symbolMap[q.symbol] ELSE q.symbol

\* Array.isArray(quotes) ? quotes : [quotes]
quoteArrayOf(response) ==
    IF response.isArray THEN response.quotes ELSE <<response.quotes[1]>>

\* the for loop of lines 112-124 over the first n quotes
RECURSIVE recordQuotes(_, _, _, _)
recordQuotes(res, symbolMap, quoteArray, n) ==
    IF n = 0 THEN res
    ELSE LET before == recordQuotes(res, symbolMap, quoteArray, n - 1)
             q == quoteArray[n]
         IN  IF q.t = "null" THEN before
             ELSE setProp(before, originalSymbolOf(symbolMap, q), resolvePricing(q))

\* fillMissing filling only the first symbol of the chunk
fillMissing_firstOnly(res, chunk, n) ==
    IF n = 0 \/ chunk[1] \in DOMAIN res THEN res
    ELSE setProp(res, chunk[1], NullPricing)

\* the for loop of lines 129-133 over the first n symbols of the chunk.
\* !results[symbol]: an entry, once written, is an object and so truthy; the
\* symbols are tickers in the site's display form (upper case), none of which
\* names a property that results inherits from Object.prototype
RECURSIVE fillMissing(_, _, _)
fillMissing(res, chunk, n) ==
    IF n = 0 THEN res
    ELSE LET before == fillMissing(res, chunk, n - 1)
         IN  IF chunk[n] \in DOMAIN before THEN before
             ELSE setProp(before, chunk[n], NullPricing)

\* results after the iteration of a chunk whose request succeeded
resultsAfterQuotes(res, chunk, response) ==
    LET quoteArray == quoteArrayOf(response)
    IN  fillMissing(recordQuotes(res, symbolMapOf(chunk), quoteArray, Len(quoteArray)),
                    chunk, Len(chunk))

\* resultsAfterError without the fill-in loop
resultsAfterError_noFill(res, chunk) == res

\* results after the iteration of a chunk whose request threw
resultsAfterError(res, chunk) == fillMissing(res, chunk, Len(chunk))

(***************************************************************************)
(* The quote provider (yahooFinance.quote).                                *)
(***************************************************************************)
NullQuote ==
    [t |-> "null", symbol |-> <<>>, regularMarketPrice |-> Undefined,
     dividendYield |-> Undefined, trailingAnnualDividendYield |-> Undefined]

Quote(s, p, d, y) ==
    [t |-> "object", symbol |-> s, regularMarketPrice |-> p,
     dividendYield |-> d, trailingAnnualDividendYield |-> y]

ProviderSymbols == {symAdashB, symC, symZ}

ProviderQuotes ==
    {Quote(s, Num(20), Num(15), Num(20)) : s \in ProviderSymbols}
    \cup {Quote(s, Undefined, Undefined, Undefined) : s \in ProviderSymbols}
    \cup {NullQuote}

Responses ==
    {[isArray |-> TRUE, quotes |-> qs] : qs \in SeqsUpTo(ProviderQuotes, MaxQuotes)}
    \cup {[isArray |-> FALSE, quotes |-> <<q>>] : q \in ProviderQuotes}

YieldQuotes ==
    {Quote(symC, p, d, y) : p \in FieldValues, d \in FieldValues, y \in FieldValues}

NotResolved == [price |-> Undefined, dividendYield |-> Undefined]

\* tickers in display form; "A.B" and "A-B" have the same provider form
InputSymbols == {symAdotB, symAdashB, symC}
SymbolLists == SeqsUpTo(InputSymbols, MaxSymbols)


(***************************************************************************)
(* buildConstituents, writeCsv and main.                                   *)
(***************************************************************************)
Pages == {1, 2}    \* 1: SP500_URL, 2: MIDCAP_URL

NotWritten == <<"not written">>

\* String(row.Symbol).trim()
symbolOfRow(row) ==
    trim(IF strSymbol \in DOMAIN row THEN row[strSymbol] ELSE strUndefined)

\* row.Security ?? row.Company ?? row.Name ?? ''
nameOfRow(row) ==
    IF strSecurity \in DOMAIN row THEN row[strSecurity]
    ELSE IF strCompany \in DOMAIN row THEN row[strCompany]
    ELSE IF strName \in DOMAIN row THEN row[strName]
    ELSE <<>>

\* row['GICS Sector'] ?? row.Sector ?? ''
sectorOfRow(row) ==
    IF strGicsSector \in DOMAIN row THEN row[strGicsSector]
    ELSE IF strSector \in DOMAIN row THEN row[strSector]
    ELSE <<>>

\* quoteData[symbol] ?? { price: null, dividendYield: null }
pricingOf(quoteData, symbol) ==
    IF symbol \in DOMAIN quoteData THEN quoteData[symbol] ELSE NullPricing

\* the callback of combinedRows.map, lines 149-162
constituentOf(row, quoteData) ==
    LET symbol == symbolOfRow(row)
        pricing == pricingOf(quoteData, symbol)
    IN  [symbol |-> symbol,
         name |-> nameOfRow(row),
         sector |-> sectorOfRow(row),
         price |-> pricing.price,
         dividendYield |-> pricing.dividendYield]

\* mapConstituents keeping only the rows whose symbol has a price
mapConstituents_dropUnpriced(rows, quoteData) ==
    LET all == [i \in DOMAIN rows |-> constituentOf(rows[i], quoteData)]
    IN  SelectSeq(all, LAMBDA c : c.price # Null)

mapConstituents(rows, quoteData) ==
    [i \in DOMAIN rows |-> constituentOf(rows[i], quoteData)]

\* the rows of writeCsv in COLUMN_ORDER: Symbol, Name, Sector, Price, Dividend Yield
csvRowsOf(cs) ==
    [i \in DOMAIN cs |->
        <<cs[i].symbol, cs[i].name, cs[i].sector, cs[i].price, cs[i].dividendYield>>]

\* allFulfilled satisfied by a single fulfilled task
allFulfilled_any(pcs) == \E p \in Pages : pcs[p] = "fulfilled"

\* Promise.all fulfils when every task has fulfilled
allFulfilled(pcs) == \A p \in Pages : pcs[p] = "fulfilled"

\* Promise.all rejects when a task has rejected
anyRejected(pcs) == \E p \in Pages : pcs[p] = "rejected"

docSP ==
    << << <<strSymbol, strSecurity, strGicsSector>>,
          <<symC, txtAcme, txtAcme>>,
          <<txtPaddedAB, <<>>, txtAcme, symZ>> >> >>

docMid ==
    << << <<strName>> >>,
       << <<strSymbol, strCompany>>,
          <<symAdashB, txtAcme>>,
          <<txtBlank, txtAcme>>,
          <<symC, txtAcme>> >> >>

docUpper ==
    << << <<strSymbolUpper, strName, strSector>>,
          <<symC, txtAcme, txtAcme>> >> >>

docNone ==
    << << <<strName, strSector>>, <<txtAcme, txtAcme>> >> >>

PageDocs == {docSP, docMid, docUpper, docNone}

(***************************************************************************)
(* Actions of fetchQuoteData.                                              *)
(***************************************************************************)
chunksOf(syms) == chunkArray(syms, ChunkSize)

\* the non-null quotes of a response
liveQuotes(response) ==
    {q \in Range(quoteArrayOf(response)) : q.t # "null"}

\* after the iteration of chunk k: the next request is issued, or the function returns
AfterChunk(k) ==
    LET chunks == chunksOf(symbols)
    IN  IF k < Len(chunks)
        THEN /\ requests' = Append(requests, yahooSymbolsOf(chunks[k + 1]))
             /\ inFlight' = inFlight
             /\ chunkIndex' = k + 1
             /\ qpc' = "awaiting"
        ELSE /\ requests' = requests
             /\ inFlight' = inFlight - 1
             /\ chunkIndex' = k
             /\ qpc' = "returned"

\* lines 97-107: the call, up to the first await
QuoteEntry ==
    /\ qpc = "called"
    /\ results' = <<>>
    /\ IF Len(symbols) = 0
       THEN /\ qpc' = "returned"
            /\ UNCHANGED <<requests, inFlight, chunkIndex>>
       ELSE /\ requests' = Append(requests, yahooSymbolsOf(chunksOf(symbols)[1]))
            /\ inFlight' = inFlight + 1
            /\ chunkIndex' = 1
            /\ qpc' = "awaiting"
    /\ UNCHANGED <<symbols, completions, quoted, returnedSyms>>
    /\ UNCHANGED <<extractVars, yieldVars, mainVars>>

\* lines 110-124 and 129-133: the awaited request returns `response`
QuoteResolve(response) ==
    /\ qpc = "awaiting"
    /\ LET chunk == chunksOf(symbols)[chunkIndex]
       IN  /\ results' = resultsAfterQuotes(results, chunk, response)
           /\ quoted' = quoted \cup
                 {<<chunkIndex, q.symbol, originalSymbolOf(symbolMapOf(chunk), q)>> :
                     q \in liveQuotes(response)}
    /\ returnedSyms' = returnedSyms \cup {q.symbol : q \in liveQuotes(response)}
    /\ completions' = Append(completions, "ok")
    /\ AfterChunk(chunkIndex)
    /\ UNCHANGED symbols
    /\ UNCHANGED <<extractVars, yieldVars, mainVars>>

\* lines 125-127 and 129-133: the awaited request throws
QuoteReject ==
    /\ qpc = "awaiting"
    /\ results' = resultsAfterError(results, chunksOf(symbols)[chunkIndex])
    /\ completions' = Append(completions, "err")
    /\ AfterChunk(chunkIndex)
    /\ UNCHANGED <<symbols, quoted, returnedSyms>>
    /\ UNCHANGED <<extractVars, yieldVars, mainVars>>

QuoteNext ==
    \/ QuoteEntry
    \/ \E response \in Responses : QuoteResolve(response)
    \/ QuoteReject

(***************************************************************************)
(* Actions of fetchConstituents, buildConstituents and main.               *)
(***************************************************************************)
\* lines 27-31: the response of fetch(url) arrives; response.ok is `ok`
FetchRespond(p, ok) ==
    /\ taskPc[p] = "fetch"
    /\ taskPc' = [taskPc EXCEPT ![p] = IF ok THEN "text" ELSE "rejected"]
    /\ UNCHANGED <<taskHtml, taskRows, mainPc, combinedRows, constituents,
                   csvFile, exitCode>>
    /\ UNCHANGED <<extractVars, yieldVars, quoteVars>>

\* lines 31, 80-81: the body arrives and is parsed
BodyArrive(p, doc) ==
    /\ taskPc[p] = "text"
    /\ taskHtml' = [taskHtml EXCEPT ![p] = doc]
    /\ LET parsed == parseConstituentTable(doc)
       IN  IF parsed.ok
           THEN /\ taskRows' = [taskRows EXCEPT ![p] = parsed.rows]
                /\ taskPc' = [taskPc EXCEPT ![p] = "fulfilled"]
           ELSE /\ taskRows' = taskRows
                /\ taskPc' = [taskPc EXCEPT ![p] = "rejected"]
    /\ UNCHANGED <<mainPc, combinedRows, constituents, csvFile, exitCode>>
    /\ UNCHANGED <<extractVars, yieldVars, quoteVars>>

\* lines 140-147: Promise.all fulfilled; fetchQuoteData is called
AllFulfil ==
    /\ mainPc = "awaitAll"
    /\ allFulfilled(taskPc)
    /\ combinedRows' = taskRows[1] \o taskRows[2]
    /\ symbols' = [i \in DOMAIN combinedRows' |-> symbolOfRow(combinedRows'[i])]
    /\ qpc' = "called"
    /\ mainPc' = "quotes"
    /\ UNCHANGED <<results, chunkIndex, requests, completions, inFlight, quoted,
                   returnedSyms>>
    /\ UNCHANGED <<taskPc, taskHtml, taskRows, constituents, csvFile, exitCode>>
    /\ UNCHANGED <<extractVars, yieldVars>>

\* lines 140, 180, 185-188: Promise.all rejected; main rejects and the catch runs
AllReject ==
    /\ mainPc = "awaitAll"
    /\ anyRejected(taskPc)
    /\ exitCode' = 1
    /\ mainPc' = "exited"
    /\ UNCHANGED <<taskPc, taskHtml, taskRows, combinedRows, constituents, csvFile>>
    /\ UNCHANGED <<extractVars, yieldVars, quoteVars>>

\* lines 149-162, 166-175: the rows are built and writeCsv starts writing
BuildRows ==
    /\ mainPc = "quotes"
    /\ qpc = "returned"
    /\ constituents' = mapConstituents(combinedRows, results)
    /\ mainPc' = "writing"
    /\ UNCHANGED <<taskPc, taskHtml, taskRows, combinedRows, csvFile, exitCode>>
    /\ UNCHANGED <<extractVars, yieldVars, quoteVars>>

\* lines 175, 182: fs.writeFile succeeded
WriteDone ==
    /\ mainPc = "writing"
    /\ csvFile' = csvRowsOf(constituents)
    /\ mainPc' = "exited"
    /\ UNCHANGED <<taskPc, taskHtml, taskRows, combinedRows, constituents, exitCode>>
    /\ UNCHANGED <<extractVars, yieldVars, quoteVars>>

\* lines 175, 185-188: fs.writeFile failed; main rejects and the catch runs
WriteFail ==
    /\ mainPc = "writing"
    /\ exitCode' = 1
    /\ mainPc' = "exited"
    /\ UNCHANGED <<taskPc, taskHtml, taskRows, combinedRows, constituents, csvFile>>
    /\ UNCHANGED <<extractVars, yieldVars, quoteVars>>

(***************************************************************************)
(* Actions applying the pure functions.                                    *)
(***************************************************************************)
Extract ==
    /\ extracted = NotRun
    /\ extracted' = parseConstituentTable(html)
    /\ UNCHANGED <<html, yieldVars, quoteVars, mainVars>>

Resolve ==
    /\ resolved = NotResolved
    /\ resolved' = resolvePricing(quote)
    /\ UNCHANGED <<quote, extractVars, quoteVars, mainVars>>

(***************************************************************************)
(* Specifications.                                                         *)
(***************************************************************************)
IdleExtract == html = <<>> /\ extracted = NotRun
IdleYield == quote = NullQuote /\ resolved = NotResolved
IdleQuote ==
    /\ symbols = <<>>
    /\ results = <<>>
    /\ chunkIndex = 0
    /\ qpc = "idle"
    /\ requests = <<>>
    /\ completions = <<>>
    /\ inFlight = 0
    /\ quoted = {}
    /\ returnedSyms = {}
IdleMain ==
    /\ taskPc = [p \in Pages |-> "idle"]
    /\ taskHtml = [p \in Pages |-> <<>>]
    /\ taskRows = [p \in Pages |-> <<>>]
    /\ mainPc = "idle"
    /\ combinedRows = <<>>
    /\ constituents = <<>>
    /\ csvFile = NotWritten
    /\ exitCode = 0

\* the whole program: main()
Init ==
    /\ IdleExtract
    /\ IdleYield
    /\ IdleQuote
    /\ taskPc = [p \in Pages |-> "fetch"]
    /\ taskHtml = [p \in Pages |-> <<>>]
    /\ taskRows = [p \in Pages |-> <<>>]
    /\ mainPc = "awaitAll"
    /\ combinedRows = <<>>
    /\ constituents = <<>>
    /\ csvFile = NotWritten
    /\ exitCode = 0

Next ==
    \/ \E p \in Pages, ok \in BOOLEAN : FetchRespond(p, ok)
    \/ \E p \in Pages, doc \in PageDocs : BodyArrive(p, doc)
    \/ AllFulfil
    \/ AllReject
    \/ QuoteEntry
    \/ \E response \in Responses : QuoteResolve(response)
    \/ QuoteReject
    \/ BuildRows
    \/ WriteDone
    \/ WriteFail

Spec == Init /\ [][Next]_vars

\* fetchQuoteData called on its own with any symbol list
InitQuote ==
    /\ IdleExtract
    /\ IdleYield
    /\ IdleMain
    /\ symbols \in SymbolLists
    /\ results = <<>>
    /\ chunkIndex = 0
    /\ qpc = "called"
    /\ requests = <<>>
    /\ completions = <<>>
    /\ inFlight = 0
    /\ quoted = {}
    /\ returnedSyms = {}

SpecQuote == InitQuote /\ [][QuoteNext]_vars

\* parseConstituentTable applied to any document
InitExtract ==
    /\ html \in Documents
    /\ extracted = NotRun
    /\ IdleYield
    /\ IdleQuote
    /\ IdleMain

SpecExtract == InitExtract /\ [][Extract]_vars

\* the pricing entry computed from any quote
InitYield ==
    /\ quote \in YieldQuotes
    /\ resolved = NotResolved
    /\ IdleExtract
    /\ IdleQuote
    /\ IdleMain

SpecYield == InitYield /\ [][Resolve]_vars


(***************************************************************************)
(* Properties of parseConstituentTable (under SpecExtract).                *)
(***************************************************************************)
IsSymbolHeader(text) == toLowerCase(trim(text)) = strSymbolLower

\* the table has a Symbol header cell in its first row
HasSymbolHeader(table) ==
    /\ table # <<>>
    /\ \E i \in DOMAIN table[1] : IsSymbolHeader(table[1][i])

\* the header text the extractor matched: the first Symbol header of the first row
MatchedHeader(table) ==
    trim(table[1][CHOOSE i \in DOMAIN table[1] :
                    /\ IsSymbolHeader(table[1][i])
                    /\ \A j \in 1..(i - 1) : ~IsSymbolHeader(table[1][j])])

\* the name of column i of a row of the table
ColumnName(table, i) ==
    IF i <= Len(table[1]) THEN trim(table[1][i]) ELSE columnPlaceholder(i - 1)

\* the row as a mapping from column name to trimmed text; of two cells under
\* the same name the later one is kept
RowEntry(table, n) ==
    LET row == table[n]
        names == {ColumnName(table, i) : i \in DOMAIN row}
    IN  [name \in names |->
            trim(row[CHOOSE i \in DOMAIN row :
                        /\ ColumnName(table, i) = name
                        /\ \A j \in (i + 1)..Len(row) : ColumnName(table, j) # name])]

PopulatedSymbol(table, entry) ==
    /\ MatchedHeader(table) \in DOMAIN entry
    /\ entry[MatchedHeader(table)] # <<>>

\* the rows a table yields: its data rows, in order, whose Symbol value is not empty
YieldedRows(table) ==
    SelectSeq([n \in 1..(Len(table) - 1) |-> RowEntry(table, n + 1)],
              LAMBDA entry : PopulatedSymbol(table, entry))

Qualifies(table) == HasSymbolHeader(table) /\ YieldedRows(table) # <<>>

FirstQualifying(doc) ==
    CHOOSE k \in DOMAIN doc :
        Qualifies(doc[k]) /\ \A j \in 1..(k - 1) : ~Qualifies(doc[j])

\* the document has a table with a Symbol header cell and a data row whose cell
\* under that header is not empty
HasSymbolRow(doc) ==
    \E k \in DOMAIN doc :
        /\ doc[k] # <<>>
        /\ \E i \in DOMAIN doc[k][1] :
              /\ IsSymbolHeader(doc[k][1][i])
              /\ \E n \in 2..Len(doc[k]) :
                    i <= Len(doc[k][n]) /\ trim(doc[k][n][i]) # <<>>

\* C5: for every document with a table that has a Symbol header cell (any case,
\* trimmed) and a data row with a non-empty Symbol cell, the extractor returns a
\* non-empty sequence of rows, each with a non-empty value under the Symbol header.
C5_SymbolRowExtracted ==
    (extracted # NotRun /\ HasSymbolRow(html)) =>
        /\ extracted.ok
        /\ Len(extracted.rows) > 0
        /\ \A i \in DOMAIN extracted.rows :
              \E key \in DOMAIN extracted.rows[i] :
                  toLowerCase(key) = strSymbolLower /\ extracted.rows[i][key] # <<>>

C8_YieldPrecedence ==
    resolved # NotResolved =>
        /\ (quote.dividendYield.t = "number" =>
               resolved.dividendYield = Num(100 * quote.dividendYield.v))
        /\ (quote.dividendYield.t # "number"
              /\ quote.trailingAnnualDividendYield.t = "number" =>
               resolved.dividendYield = Num(100 * quote.trailingAnnualDividendYield.v))
        /\ (quote.dividendYield.t # "number"
              /\ quote.trailingAnnualDividendYield.t # "number" =>
               resolved.dividendYield = Null)
        /\ (quote.dividendYield = Num(15)
              /\ quote.trailingAnnualDividendYield = Num(20) =>
               resolved.dividendYield = Num(1500))

\* C8 witness: both fields numeric and different, the explicit field won
C8_Witness ==
    /\ resolved # NotResolved
    /\ quote.dividendYield = Num(15)
    /\ quote.trailingAnnualDividendYield = Num(20)
    /\ resolved.dividendYield = Num(1500)


(***************************************************************************)
(* Properties of fetchQuoteData (under SpecQuote).                         *)
(***************************************************************************)
Returned == qpc = "returned"

\* the input symbols of batch k: positions ChunkSize*(k-1)+1 .. ChunkSize*k
BatchPositions(k) ==
    {i \in DOMAIN symbols : ChunkSize * (k - 1) < i /\ i <= ChunkSize * k}

BatchSymbols(k) == {symbols[i] : i \in BatchPositions(k)}

NumBatches == (Len(symbols) + ChunkSize - 1) \div ChunkSize

FailedBatches == {k \in DOMAIN completions : completions[k] = "err"}

\* keys under which an entry was written from a returned quote
QuotedKeys == {e[3] : e \in quoted}

\* keys written from a quote whose symbol matched no symbol of its batch
UnmappedKeys == {e[3] : e \in {x \in quoted : x[3] \notin BatchSymbols(x[1])}}

NumberOrNull(value) == value.t \in {"number", "null"}

BothFields(entry) ==
    /\ DOMAIN entry = {"price", "dividendYield"}
    /\ NumberOrNull(entry.price)
    /\ NumberOrNull(entry.dividendYield)

\* y is s with every "." replaced by "-"
Dashed(s, y) ==
    /\ Len(y) = Len(s)
    /\ \A i \in DOMAIN s : y[i] = IF s[i] = "." THEN "-" ELSE s[i]

C7_SequentialBatches ==
    /\ inFlight \in {0, 1}
    /\ inFlight = Len(requests) - Len(completions)
    /\ Len(requests) <= NumBatches
    /\ \A k \in DOMAIN requests :
          /\ Len(requests[k]) = Cardinality(BatchPositions(k))
          /\ \A j \in DOMAIN requests[k] :
                Dashed(symbols[ChunkSize * (k - 1) + j], requests[k][j])
    /\ (qpc = "awaiting" => inFlight = 1 /\ chunkIndex = Len(requests))
    /\ Returned =>
          /\ Len(requests) = NumBatches
          /\ Len(completions) = NumBatches
          /\ inFlight = 0
          /\ (Len(symbols) = 0 => requests = <<>> /\ DOMAIN results = {})

\* C7 witness: the first request failed and the later batches were still
\* requested, the last one being a partial batch
C7_Witness ==
    /\ Returned
    /\ Len(requests) > 1
    /\ completions[1] = "err"
    /\ Len(requests[Len(requests)]) < ChunkSize
    /\ Len(requests[1]) = ChunkSize

\* the last symbol of batch k whose provider form is y
LastWithForm(k, y) ==
    symbols[CHOOSE i \in BatchPositions(k) :
                /\ Dashed(symbols[i], y)
                /\ \A j \in BatchPositions(k) : j > i => ~Dashed(symbols[j], y)]

\* C9 as stated: each symbol is sent with "." replaced by "-", and a quote
\* returned under the provider form of a symbol s of the batch is recorded under s.
C9_RoundTrip ==
    /\ \A k \in DOMAIN requests : \A j \in DOMAIN requests[k] :
          Dashed(symbols[ChunkSize * (k - 1) + j], requests[k][j])
    /\ \A e \in quoted : \A i \in BatchPositions(e[1]) :
          Dashed(symbols[i], e[2]) => e[3] = symbols[i] /\ e[3] \in DOMAIN results

\* C9 amended: each symbol is sent with "." replaced by "-", and a quote returned
\* under the provider form of a symbol of the batch is recorded under the last
\* symbol of the batch that has this provider form: under s itself whenever no
\* different symbol of the batch has the same provider form.
C9_RoundTripLastWins ==
    /\ \A k \in DOMAIN requests : \A j \in DOMAIN requests[k] :
          Dashed(symbols[ChunkSize * (k - 1) + j], requests[k][j])
    /\ \A e \in quoted :
          /\ e[3] \in DOMAIN results
          /\ (\E i \in BatchPositions(e[1]) : Dashed(symbols[i], e[2])) =>
                e[3] = LastWithForm(e[1], e[2])
          /\ \A i \in BatchPositions(e[1]) :
                (/\ Dashed(symbols[i], e[2])
                 /\ \A j \in BatchPositions(e[1]) :
                       Dashed(symbols[j], e[2]) => symbols[j] = symbols[i])
                => e[3] = symbols[i]

\* C9 witness: "A.B" was requested as "A-B" and the quote returned for "A-B" was
\* recorded under "A.B", with no entry under "A-B"
C9_Witness ==
    /\ Returned
    /\ Len(symbols) > 0
    /\ symbols[1] = symAdotB
    /\ requests[1][1] = symAdashB
    /\ <<1, symAdashB, symAdotB>> \in quoted
    /\ results[symAdotB] # NullPricing
    /\ symAdashB \notin DOMAIN results

(***************************************************************************)
(* Properties of buildConstituents and main (under Spec).                  *)
(***************************************************************************)
\* buildConstituents has returned its rows
Built == mainPc \in {"writing", "exited"} /\ qpc = "returned"

\* the rows the extractor returns for the body of page p
ExtractedRows(p) == parseConstituentTable(taskHtml[p]).rows

C4_FatalFetchAborts ==
    /\ anyRejected(taskPc) =>
          /\ mainPc \in {"awaitAll", "exited"}
          /\ qpc = "idle"
          /\ csvFile = NotWritten
          /\ (mainPc = "exited" => exitCode = 1)
    /\ mainPc # "exited" => exitCode = 0
    /\ (mainPc = "exited" /\ csvFile # NotWritten) => exitCode = 0
    /\ (mainPc = "exited" /\ csvFile = NotWritten) => exitCode = 1
    /\ exitCode \in {0, 1}

\* C4 witness: one page was fetched and parsed, the other failed, and the run
\* ended with exit code 1 and no CSV
C4_Witness ==
    /\ mainPc = "exited"
    /\ exitCode = 1
    /\ csvFile = NotWritten
    /\ \E p \in Pages : taskPc[p] = "fulfilled"
    /\ \E p \in Pages : taskPc[p] = "rejected"

\* the table of page p the extractor took its rows from
SelectedTable(p) == taskHtml[p][FirstQualifying(taskHtml[p])]

\* the page row i of combinedRows comes from
PageOfRow(i) == IF i <= Len(taskRows[1]) THEN 1 ELSE 2

\* C10: whatever the letter case of the matched header, the constituent built
\* from a row has as symbol the text of the row's cell under the matched Symbol
\* header, and that text is the symbol passed to fetchQuoteData.
C10_SymbolColumnAgrees ==
    Built =>
        \A i \in DOMAIN constituents :
            LET header == MatchedHeader(SelectedTable(PageOfRow(i)))
            IN  /\ constituents[i].symbol = combinedRows[i][header]
                /\ symbols[i] = combinedRows[i][header]

====
